---- MODULE Spec2Model ----
(***************************************************************************)
(* A model of gmail_api.py: the body decoder and its normalisation         *)
(* pipeline (decode_body), the two walks over a message's parts tree       *)
(* (extract_text_from_parts, extract_attachments), the record builder      *)
(* (process_email) and the batch loop of main.                             *)
(*                                                                         *)
(* A Python str is a sequence of code points (integers), a bytes object a  *)
(* sequence of integers 0..255.  A call that may raise returns a record    *)
(* [exc, val]: exc is "none" or the name of the exception that escapes.    *)
(***************************************************************************)
EXTENDS Integers, Sequences, FiniteSets, TLC

\* ------------------------------------------------------------------ bounds

\* Longest text handed to the normalisation pipeline (SpecNorm).
MaxTextLen == 5
\* Longest body blob handed to decode_body (SpecDecode).
MaxBlobLen == 4
\* Most nodes in a parts tree handed to extract_text_from_parts (SpecText).
MaxTextNodes == 3
\* Most nodes under the payload of a message handed to process_email (SpecMsg).
MaxMsgNodes == 3
\* Most message ids the list call returns in the batch loop (Spec).
MaxEmails == 2
\* Most nodes under the payload of a message of the batch loop (Spec).
MaxMainNodes == 1

\* ----------------------------------------------------------- result values

Ok(v) == [exc |-> "none", val |-> v]

Raise(e) == [exc |-> e, val |-> <<>>]

Min(a, b) == IF a < b THEN a ELSE b

\* ------------------------------------------------------- character classes

\* The characters Python's str.isspace / re's \s accept.
Whitespace ==
  {9, 10, 11, 12, 13, 28, 29, 30, 31, 32, 133, 160, 5760} \cup (8192..8202)
    \cup {8232, 8233, 8239, 8287, 12288}

\* First code points of the blocks of ten decimal digits re's \d accepts
\* (Unicode category Nd); 120782 starts five such blocks in a row.
DigitBlocks ==
  {48, 1632, 1776, 1984, 2406, 2534, 2662, 2790, 2918, 3046, 3174, 3302, 3430,
   3558, 3664, 3792, 3872, 4160, 4240, 6112, 6160, 6470, 6608, 6784, 6800,
   6992, 7088, 7232, 7248, 42528, 43216, 43264, 43472, 43504, 43600, 44016,
   65296, 66720, 68912, 69734, 69872, 69942, 70096, 70384, 70736, 70864,
   71248, 71360, 71472, 71904, 72016, 72784, 73040, 73120, 92768, 92864,
   93008, 120782, 120792, 120802, 120812, 120822, 123200, 123632, 125264,
   130032}

IsSpace(c) == c \in Whitespace

IsDigit(c) == \E s \in DigitBlocks : c >= s /\ c <= s + 9

\* "ascii_digit" [0-9], "hex" [0-9a-fA-F], "name" [^\t\n\f <&#;],
\* "space" \s, "digit" \d, "blank" the space character.
InClass(cls, c) ==
  CASE cls = "ascii_digit" -> c \in 48..57
    [] cls = "hex" -> c \in (48..57) \cup (65..70) \cup (97..102)
    [] cls = "name" -> c \notin {9, 10, 12, 32, 60, 38, 35, 59}
    [] cls = "space" -> IsSpace(c)
    [] cls = "digit" -> IsDigit(c)
    [] cls = "blank" -> c = 32

\* The position after the longest run of cls characters of t that starts at i
\* (i itself when t[i] is not of the class): a greedy cls* .
RunEnd(cls, t, i) ==
  CHOOSE j \in i..(Len(t) + 1) :
    /\ \A k \in i..(j - 1) : InClass(cls, t[k])
    /\ (j = Len(t) + 1 \/ ~InClass(cls, t[j]))

\* ------------------------------------------------------------ html.unescape

\* Numeric references above this code point become U+FFFD.
MaxCodePoint == 1114111

\* html._invalid_charrefs: replacements for the references 0x80..0x9f.
C1Replacements ==
  <<8364, 129, 8218, 402, 8222, 8230, 8224, 8225, 710, 8240, 352, 8249, 338,
    141, 381, 143, 144, 8216, 8217, 8220, 8221, 8226, 8211, 8212, 732, 8482,
    353, 8250, 339, 157, 382, 376>>

\* html._invalid_codepoints.
InvalidCodepoint(num) ==
  \/ num \in 1..8
  \/ num \in 14..31
  \/ num \in 127..159
  \/ num \in 64976..65007
  \/ num = 11
  \/ (num % 65536) \in {65534, 65535}

\* The entries of html.entities.html5 the model carries: amp, lt, gt, quot and
\* nbsp, each with and without its semicolon.
Html5 ==
  [name \in {<<97, 109, 112, 59>>, <<97, 109, 112>>, <<108, 116, 59>>,
             <<108, 116>>, <<103, 116, 59>>, <<103, 116>>,
             <<113, 117, 111, 116, 59>>, <<113, 117, 111, 116>>,
             <<110, 98, 115, 112, 59>>, <<110, 98, 115, 112>>} |->
     CASE name[1] = 97 -> <<38>>
       [] name[1] = 108 -> <<60>>
       [] name[1] = 103 -> <<62>>
       [] name[1] = 113 -> <<34>>
       [] name[1] = 110 -> <<160>>]

HexDigitValue(c) ==
  IF c \in 48..57 THEN c - 48 ELSE IF c \in 65..70 THEN c - 55 ELSE c - 87

\* int(digits, base); a value above MaxCodePoint stays above it (saturates),
\* which is all the caller distinguishes there.
RECURSIVE IntValue(_, _, _)
IntValue(digits, base, acc) ==
  IF digits = <<>> THEN acc
  ELSE IntValue(Tail(digits), base,
                Min(acc * base + HexDigitValue(Head(digits)), MaxCodePoint + 1))

\* s.rstrip(';')
RECURSIVE RStripSemicolon(_)
RStripSemicolon(s) ==
  IF s # <<>> /\ s[Len(s)] = 59 THEN RStripSemicolon(SubSeq(s, 1, Len(s) - 1))
  ELSE s

\* html._replace_charref on the text s of the match's group 1.
ReplaceCharref(s) ==
  IF s[1] = 35 THEN
    LET num == IF s[2] \in {120, 88}
               THEN IntValue(RStripSemicolon(SubSeq(s, 3, Len(s))), 16, 0)
               ELSE IntValue(RStripSemicolon(SubSeq(s, 2, Len(s))), 10, 0)
    IN  IF num = 0 THEN <<65533>>
        ELSE IF num = 13 THEN <<13>>
        ELSE IF num \in 128..159 THEN <<C1Replacements[num - 127]>>
        ELSE IF num \in 55296..57343 \/ num > MaxCodePoint THEN <<65533>>
        ELSE IF InvalidCodepoint(num) THEN <<>>
        ELSE <<num>>
  ELSE IF s \in DOMAIN Html5 THEN Html5[s]
  ELSE LET cuts == {x \in 2..(Len(s) - 1) : SubSeq(s, 1, x) \in DOMAIN Html5}
       IN  IF cuts # {}
           THEN LET x == CHOOSE c \in cuts : \A d \in cuts : d <= c
                IN  Html5[SubSeq(s, 1, x)] \o SubSeq(s, x + 1, Len(s))
           ELSE <<38>> \o s

\* The length of group 1 of html._charref matched at the '&' at t[i], 0 when
\* the pattern does not match there:
\*   &(#[0-9]+;?|#[xX][0-9a-fA-F]+;?|[^\t\n\f <&#;]{1,32};?)
CharrefLen(t, i) ==
  LET n == Len(t)
      semi(e) == IF e <= n /\ t[e] = 59 THEN 1 ELSE 0
  IN  IF i + 2 <= n /\ t[i + 1] = 35 /\ InClass("ascii_digit", t[i + 2])
      THEN LET e == RunEnd("ascii_digit", t, i + 2) IN e - (i + 1) + semi(e)
      ELSE IF i + 3 <= n /\ t[i + 1] = 35 /\ t[i + 2] \in {120, 88}
              /\ InClass("hex", t[i + 3])
      THEN LET e == RunEnd("hex", t, i + 3) IN e - (i + 1) + semi(e)
      ELSE IF i + 1 <= n /\ InClass("name", t[i + 1])
      THEN LET e == Min(RunEnd("name", t, i + 1), i + 33)
           IN  e - (i + 1) + semi(e)
      ELSE 0

RECURSIVE UnescapeFrom(_, _)
UnescapeFrom(t, i) ==
  IF i > Len(t) THEN <<>>
  ELSE IF t[i] = 38 /\ CharrefLen(t, i) > 0
  THEN LET k == CharrefLen(t, i)
       IN  ReplaceCharref(SubSeq(t, i + 1, i + k)) \o UnescapeFrom(t, i + k + 1)
  ELSE <<t[i]>> \o UnescapeFrom(t, i + 1)

\* html.unescape(t)
html_unescape(t) == UnescapeFrom(t, 1)

\* ------------------------------------------------- the normalisation steps

\* re.sub(r'\r\n|\r|\n', '\n', t)
RECURSIVE LineBreaksFrom(_, _)
LineBreaksFrom(t, i) ==
  IF i > Len(t) THEN <<>>
  ELSE IF t[i] = 13 /\ i < Len(t) /\ t[i + 1] = 10
  THEN <<10>> \o LineBreaksFrom(t, i + 2)
  ELSE IF t[i] = 13 THEN <<10>> \o LineBreaksFrom(t, i + 1)
  ELSE <<t[i]>> \o LineBreaksFrom(t, i + 1)

NormalizeLineBreaks(t) == LineBreaksFrom(t, 1)

\* re.sub(r'\n\s*\n', '\n\n', t): from a line feed the greedy \s* runs over
\* the whole whitespace run and backs up to its last line feed.
RECURSIVE BlankLinesFrom(_, _)
BlankLinesFrom(t, i) ==
  IF i > Len(t) THEN <<>>
  ELSE LET e == RunEnd("space", t, i + 1)
           ends == {j \in (i + 1)..(e - 1) : t[j] = 10}
       IN  IF t[i] = 10 /\ ends # {}
           THEN LET j == CHOOSE x \in ends : \A y \in ends : y <= x
                IN  <<10, 10>> \o BlankLinesFrom(t, j + 1)
           ELSE <<t[i]>> \o BlankLinesFrom(t, i + 1)

CollapseBlankLines(t) == BlankLinesFrom(t, 1)

\* t.strip()
Strip(t) ==
  LET keep == {i \in 1..Len(t) : ~IsSpace(t[i])}
  IN  IF keep = {} THEN <<>>
      ELSE SubSeq(t, CHOOSE a \in keep : \A b \in keep : a <= b,
                     CHOOSE a \in keep : \A b \in keep : b <= a)

\* re.sub(r' {2,}', ' ', t)
RECURSIVE SpacesFrom(_, _)
SpacesFrom(t, i) ==
  IF i > Len(t) THEN <<>>
  ELSE IF t[i] = 32 /\ i < Len(t) /\ t[i + 1] = 32
  THEN <<32>> \o SpacesFrom(t, RunEnd("blank", t, i))
  ELSE <<t[i]>> \o SpacesFrom(t, i + 1)

CollapseSpaces(t) == SpacesFrom(t, 1)

\* A plausible slip in the header strip: the pattern ^\d+ without its \s+ .
StripDigitsOnly(t) == SubSeq(t, RunEnd("digit", t, 1), Len(t))

\* re.sub(r'^\d+\s+', '', t): no MULTILINE flag, so only the start of t.
StripNumericHeader(t) ==
  LET e == RunEnd("digit", t, 1)
  IN  IF e > 1 /\ e <= Len(t) /\ IsSpace(t[e])
      THEN SubSeq(t, RunEnd("space", t, e), Len(t))
      ELSE t

\* Lines 57-62 of decode_body, in the order of the code.
normalize_text(t) ==
  StripNumericHeader(CollapseSpaces(Strip(CollapseBlankLines(
    NormalizeLineBreaks(html_unescape(t))))))

\* ----------------------------------------------- base64.urlsafe_b64decode

\* The six-bit value of an alphabet character after urlsafe_b64decode has
\* translated '-' to '+' and '_' to '/'; -1 for every other character.
B64Value(c) ==
  IF c \in 65..90 THEN c - 65
  ELSE IF c \in 97..122 THEN c - 71
  ELSE IF c \in 48..57 THEN c + 4
  ELSE IF c \in {43, 45} THEN 62
  ELSE IF c \in {47, 95} THEN 63
  ELSE -1

\* binascii.a2b_base64 without strict mode: the loop over the characters of s
\* from position i, with the C code's quad_pos, leftchar, pads and output.
RECURSIVE A2bBase64(_, _, _, _, _, _)
A2bBase64(s, i, quad_pos, leftchar, pads, out) ==
  IF i > Len(s) THEN
    IF quad_pos # 0 THEN Raise("binascii.Error") ELSE Ok(out)
  ELSE IF s[i] = 61 THEN
    IF quad_pos >= 2 /\ quad_pos + pads + 1 >= 4 THEN Ok(out)
    ELSE A2bBase64(s, i + 1, quad_pos, leftchar,
                   IF quad_pos >= 2 THEN pads + 1 ELSE pads, out)
  ELSE IF B64Value(s[i]) < 0 THEN
    A2bBase64(s, i + 1, quad_pos, leftchar, pads, out)
  ELSE
    LET v == B64Value(s[i])
    IN  CASE quad_pos = 0 -> A2bBase64(s, i + 1, 1, v, 0, out)
          [] quad_pos = 1 ->
               A2bBase64(s, i + 1, 2, v % 16, 0,
                         Append(out, (leftchar * 4 + v \div 16) % 256))
          [] quad_pos = 2 ->
               A2bBase64(s, i + 1, 3, v % 4, 0,
                         Append(out, (leftchar * 16 + v \div 4) % 256))
          [] quad_pos = 3 ->
               A2bBase64(s, i + 1, 0, 0, 0,
                         Append(out, (leftchar * 64 + v) % 256))

\* base64.urlsafe_b64decode of a str: base64._bytes_from_decode_data raises
\* ValueError for a character that is not ASCII, before any decoding.
urlsafe_b64decode(s) ==
  IF \E i \in 1..Len(s) : s[i] > 127 THEN Raise("ValueError")
  ELSE A2bBase64(s, 1, 0, 0, 0, <<>>)

\* base64.urlsafe_b64decode of data.encode('UTF-8'): the bytes of a character
\* that is not ASCII are all above 127, outside the alphabet, and are skipped
\* like the character's B64Value of -1.
urlsafe_b64decode_bytes(s) == A2bBase64(s, 1, 0, 0, 0, <<>>)

\* ------------------------------------------------------- bytes.decode UTF-8

IsCont(b, i) == i <= Len(b) /\ b[i] \in 128..191

\* The number of bytes of the well-formed UTF-8 sequence that starts at b[i],
\* 0 when there is none.
Utf8SeqLen(b, i) ==
  LET c == b[i]
      second == IF i + 1 <= Len(b) THEN b[i + 1] ELSE -1
  IN  IF c < 128 THEN 1
      ELSE IF c \in 194..223 /\ IsCont(b, i + 1) THEN 2
      ELSE IF c \in 224..239 /\ IsCont(b, i + 1) /\ IsCont(b, i + 2)
              /\ (c = 224 => second >= 160) /\ (c = 237 => second <= 159)
      THEN 3
      ELSE IF c \in 240..244 /\ IsCont(b, i + 1) /\ IsCont(b, i + 2)
              /\ IsCont(b, i + 3)
              /\ (c = 240 => second >= 144) /\ (c = 244 => second <= 143)
      THEN 4
      ELSE 0

Utf8CodePoint(b, i, n) ==
  CASE n = 1 -> b[i]
    [] n = 2 -> (b[i] - 192) * 64 + (b[i + 1] - 128)
    [] n = 3 -> (b[i] - 224) * 4096 + (b[i + 1] - 128) * 64 + (b[i + 2] - 128)
    [] n = 4 -> (b[i] - 240) * 262144 + (b[i + 1] - 128) * 4096
                  + (b[i + 2] - 128) * 64 + (b[i + 3] - 128)

RECURSIVE Utf8DecodeFrom(_, _, _)
Utf8DecodeFrom(b, i, out) ==
  IF i > Len(b) THEN Ok(out)
  ELSE LET n == Utf8SeqLen(b, i)
       IN  IF n = 0 THEN Raise("UnicodeDecodeError")
           ELSE Utf8DecodeFrom(b, i + n, Append(out, Utf8CodePoint(b, i, n)))

\* decoded_bytes.decode('UTF-8')
utf8_decode(b) == Utf8DecodeFrom(b, 1, <<>>)

\* -------------------------------------------------------------- decode_body

\* decode_body(data): '' for falsy data and for the two exceptions the except
\* clause names; any other exception escapes.
decode_body(data) ==
  IF data = <<>> THEN Ok(<<>>)
  ELSE LET decoded_bytes == urlsafe_b64decode(data)
       IN  IF decoded_bytes.exc = "binascii.Error" THEN Ok(<<>>)
           ELSE IF decoded_bytes.exc # "none" THEN decoded_bytes
           ELSE LET decoded_text == utf8_decode(decoded_bytes.val)
                IN  IF decoded_text.exc = "UnicodeDecodeError" THEN Ok(<<>>)
                    ELSE Ok(normalize_text(decoded_text.val))

\* ---------------------------------------------------------- message parts

\* A part of a message is a record: mimeType; hasData and data for the key
\* 'data' of its 'body'; filename ("" when the key is absent or empty);
\* hasAttachmentId, attachmentId and size for the keys of its 'body';
\* hasParts and parts for the key 'parts'.  A body blob is a str.
BlobA == <<81, 81, 61, 61>>             \* "QQ==", the text "A"

BlobB == <<77, 83, 66, 67>>             \* "MSBC", the text "1 B", normalised "B"

BlobBadUtf8 == <<95, 95, 61, 61>>       \* "__==", the byte 0xFF

BlobNonAscii == <<233>>                 \* a str holding U+00E9

Attrs(mime, hasData, data, filename, hasAtt, att, size) ==
  [mimeType |-> mime, hasData |-> hasData, data |-> data, filename |-> filename,
   hasAttachmentId |-> hasAtt, attachmentId |-> att, size |-> size]

\* The attributes of the nodes of the trees handed to extract_text_from_parts.
TextKinds ==
  { Attrs("text/plain", TRUE, BlobA, "", FALSE, "", 0),
    Attrs("text/plain", TRUE, BlobB, "", FALSE, "", 0),
    Attrs("text/html", TRUE, BlobA, "", FALSE, "", 0),
    Attrs("text/plain", TRUE, BlobBadUtf8, "", FALSE, "", 0),
    Attrs("text/plain", FALSE, <<>>, "", FALSE, "", 0),
    Attrs("multipart/mixed", FALSE, <<>>, "", FALSE, "", 0) }

\* The attributes of the nodes of the messages handed to process_email.
MsgKinds ==
  { Attrs("text/plain", TRUE, BlobA, "", FALSE, "", 0),
    Attrs("text/html", TRUE, BlobB, "", FALSE, "", 0),
    Attrs("text/plain", TRUE, BlobNonAscii, "", FALSE, "", 0),
    Attrs("multipart/mixed", FALSE, <<>>, "", FALSE, "", 0),
    Attrs("application/pdf", FALSE, <<>>, "a.pdf", TRUE, "h1", 3),
    Attrs("text/plain", FALSE, <<>>, "b.txt", TRUE, "h2", 0),
    Attrs("text/plain", TRUE, BlobA, "c.txt", FALSE, "", 0) }

\* A parts list (a forest) of n nodes is listed in document order: for each
\* node its attributes, whether it has the key 'parts', and its depth.  A node
\* lies one level below the node before it only if that node has 'parts'.
Listings(kinds, n) ==
  {c \in [1..n -> [kind : kinds, hasParts : BOOLEAN, depth : 0..(n - 1)]] :
     /\ n > 0 => c[1].depth = 0
     /\ \A i \in 2..n : /\ c[i].depth <= c[i - 1].depth + 1
                        /\ (c[i].depth = c[i - 1].depth + 1 => c[i - 1].hasParts)}

\* The parts list that the nodes lo..hi of a listing describe.
RECURSIVE ForestOf(_, _, _)
ForestOf(c, lo, hi) ==
  IF lo > hi THEN <<>>
  ELSE LET after == {i \in (lo + 1)..hi : c[i].depth = c[lo].depth}
           nx == IF after = {} THEN hi + 1
                 ELSE CHOOSE i \in after : \A j \in after : i <= j
       IN  <<c[lo].kind @@ [hasParts |-> c[lo].hasParts,
                            parts |-> ForestOf(c, lo + 1, nx - 1)]>>
             \o ForestOf(c, nx, hi)

\* --------------------------------------------------- extract_text_from_parts

\* A plausible slip at lines 77-78: the leaf's text without its newline.
PartTextNoNewline(mime_type, body_data) ==
  IF mime_type = "text/plain" /\ body_data # <<>> THEN body_data ELSE <<>>

\* Lines 77-78: what a part with decoded body_data adds to plain_text.
PartText(mime_type, body_data) ==
  IF mime_type = "text/plain" /\ body_data # <<>> THEN body_data \o <<10>>
  ELSE <<>>

\* Lines 72 and 77-78 for a part with body data: decode_body's ValueError
\* escapes, its text is added when the part is text/plain.
DataPartText(mime_type, body_data) ==
  IF body_data.exc # "none" THEN body_data
  ELSE Ok(PartText(mime_type, body_data.val))

\* plain_text after the first part and after the parts that follow it; an
\* exception ends the loop where it is raised.
TextThen(first, rest) ==
  IF first.exc # "none" THEN first
  ELSE IF rest.exc # "none" THEN rest
  ELSE Ok(first.val \o rest.val)

\* The loop of extract_text_from_parts over parts: a part with body data is
\* decoded and not descended into (line 71); only a part without body data
\* is descended into (line 73).
RECURSIVE extract_text_from_parts(_)
extract_text_from_parts(parts) ==
  IF parts = <<>> THEN Ok(<<>>)
  ELSE TextThen(
         IF Head(parts).hasData
         THEN DataPartText(Head(parts).mimeType, decode_body(Head(parts).data))
         ELSE IF Head(parts).hasParts
         THEN extract_text_from_parts(Head(parts).parts)
         ELSE Ok(PartText(Head(parts).mimeType, <<>>)),
         extract_text_from_parts(Tail(parts)))

\* ------------------------------------------- download and save attachments

\* What the remote service answers to attachments().get(...).execute(): it
\* fails (any exception), or it returns a response whose 'data' is a str.
AttResponses ==
  { [fails |-> TRUE, data |-> <<>>],
    [fails |-> FALSE, data |-> <<65, 81, 73, 68>>],    \* "AQID": bytes 1, 2, 3
    [fails |-> FALSE, data |-> <<>>],                  \* no data: b''
    [fails |-> FALSE, data |-> <<81>>] }               \* "Q": not base64

\* What open(filepath, 'wb') and f.write(data) do for a file name.
SaveOutcomes == {"ok", "fail"}

NoBytes == [none |-> TRUE, bytes |-> <<>>]

\* download_attachment: the bytes, or None when anything in the try raised.
download_attachment(remote, attachment_id) ==
  LET attachment == remote[attachment_id]
  IN  IF attachment.fails THEN NoBytes
      ELSE LET decoded == urlsafe_b64decode_bytes(attachment.data)
           IN  IF decoded.exc # "none" THEN NoBytes
               ELSE [none |-> FALSE, bytes |-> decoded.val]

\* save_attachment: the files of the attachments folder afterwards.  main has
\* created the folder; a failure of open or write is logged and swallowed,
\* and the function returns None either way.
save_attachment(filename, bytes, disk, files) ==
  IF disk[filename] = "ok"
  THEN {f \in files : f[1] # filename} \cup {<<filename, bytes>>}
  ELSE files

\* Line 127, 'if attachment_data:': None and b'' are both falsy.
Truthy(attachment_data) == ~attachment_data.none /\ attachment_data.bytes # <<>>

\* Lines 125-134 for a part that has a file name and an attachment id, given
\* what download_attachment returned: the record (if any), the retrieval
\* attempted and the folder's files afterwards.
AttachmentPart(part, email_id, attachment_data, disk, files) ==
  [attachments |->
     IF Truthy(attachment_data)
     THEN <<[email_id |-> email_id, filename |-> part.filename,
             mime_type |-> part.mimeType, size |-> part.size]>>
     ELSE <<>>,
   calls |->
     <<[filename |-> part.filename, attachmentId |-> part.attachmentId,
        retrieved |-> ~attachment_data.none, bytes |-> attachment_data.bytes,
        saved |-> Truthy(attachment_data) /\ disk[part.filename] = "ok"]>>,
   files |->
     IF Truthy(attachment_data)
     THEN save_attachment(part.filename, attachment_data.bytes, disk, files)
     ELSE files]

ScanJoin(first, rest) ==
  [attachments |-> first.attachments \o rest.attachments,
   calls |-> first.calls \o rest.calls,
   files |-> rest.files]

\* The loop of extract_attachments over parts.  calls lists the retrievals
\* attempted, in order, with what came of each.  A part taken as an
\* attachment is not descended into (line 135 is an elif).
RECURSIVE extract_attachments(_, _, _, _, _)
RECURSIVE ScanRest(_, _, _, _, _)
ScanRest(first, tail, email_id, remote, disk) ==
  ScanJoin(first, extract_attachments(tail, email_id, remote, disk, first.files))

extract_attachments(parts, email_id, remote, disk, files) ==
  IF parts = <<>> THEN [attachments |-> <<>>, calls |-> <<>>, files |-> files]
  ELSE ScanRest(
         IF Head(parts).filename # "" /\ Head(parts).hasAttachmentId
         THEN AttachmentPart(Head(parts), email_id,
                             download_attachment(remote, Head(parts).attachmentId),
                             disk, files)
         ELSE IF Head(parts).hasParts
         THEN extract_attachments(Head(parts).parts, email_id, remote, disk, files)
         ELSE [attachments |-> <<>>, calls |-> <<>>, files |-> files],
         Tail(parts), email_id, remote, disk)

\* ------------------------------------------------------------ process_email

DateGood == "Mon, 2 Jan 2006 15:04:05 +0000"

DateBad == "not a date"

\* dateutil's parser.parse(s).isoformat() on the date strings of the model:
\* the ISO form of a date it can parse, ParserError for anything else.
parser_parse(s) ==
  IF s = DateGood THEN Ok("2006-01-02T15:04:05+00:00") ELSE Raise("ParserError")

\* header['name'].lower() for the header names of the model.
Lower(name) ==
  CASE name \in {"Date", "date", "DATE"} -> "date"
    [] name \in {"Subject", "subject"} -> "subject"

\* header_dict.get(key, default): the dict comprehension of line 90 keeps the
\* last header of each lower-cased name.
header_get(headers, key, default) ==
  LET at == {i \in 1..Len(headers) : Lower(headers[i].name) = key}
  IN  IF at = {} THEN default
      ELSE headers[CHOOSE i \in at : \A j \in at : j <= i].value

NoDate == [none |-> TRUE, iso |-> ""]

NoEmailData ==
  [email_id |-> 0, subject |-> "", date_received |-> NoDate, plain_text |-> <<>>]

\* What process_email leaves behind: exc, the exception that escaped it;
\* returned, "none" for (None, None) and "records" for (email_data,
\* attachments); the retrievals attempted and the folder's files.
Outcome(exc, returned, email_data, attachments, calls, files) ==
  [exc |-> exc, returned |-> returned, email_data |-> email_data,
   attachments |-> attachments, calls |-> calls, files |-> files]

\* email_data['plain_text'] = <text>.strip()
StripText(plain_text) ==
  IF plain_text.exc # "none" THEN plain_text ELSE Ok(Strip(plain_text.val))

\* Lines 105-110: the body text of a payload.  A payload without parts is
\* decoded whatever its mimeType.
payload_text(payload) ==
  IF payload.hasParts THEN StripText(extract_text_from_parts(payload.parts))
  ELSE IF payload.hasData THEN StripText(decode_body(payload.data))
  ELSE Ok(<<>>)

\* Line 101: parser.parse only when the date header is there and not empty.
DateReceived(date) ==
  IF date # "" THEN parser_parse(date) ELSE Ok("")

\* Lines 112-114: the attachment scan, only for a payload with parts.
AttachmentScan(payload, email_id, remote, disk, files) ==
  IF payload.hasParts
  THEN extract_attachments(payload.parts, email_id, remote, disk, files)
  ELSE [attachments |-> <<>>, calls |-> <<>>, files |-> files]

\* Lines 92-116 given the parsed date, the body text and the scan; the first
\* exception, in the order of the code, escapes.
EmailOutcome(msg_data, date_received, plain_text, scan, files) ==
  IF date_received.exc # "none"
  THEN Outcome(date_received.exc, "none", NoEmailData, <<>>, <<>>, files)
  ELSE IF plain_text.exc # "none"
  THEN Outcome(plain_text.exc, "none", NoEmailData, <<>>, <<>>, files)
  ELSE Outcome("none", "records",
               [email_id |-> msg_data.id,
                subject |-> header_get(msg_data.headers, "subject", ""),
                date_received |->
                  IF date_received.val # ""
                  THEN [none |-> FALSE, iso |-> date_received.val]
                  ELSE NoDate,
                plain_text |-> plain_text.val],
               scan.attachments, scan.calls, scan.files)

\* process_email(service, email_id), with the service's answer to the
\* messages().get call (response), its answers to the attachment calls
\* (remote) and the file system's answers (disk).  A failed fetch returns
\* (None, None).
process_email(response, email_id, remote, disk, files) ==
  IF response.fails THEN Outcome("none", "none", NoEmailData, <<>>, <<>>, files)
  ELSE EmailOutcome(response.msg,
                    DateReceived(header_get(response.msg.headers, "date", "")),
                    payload_text(response.msg.payload),
                    AttachmentScan(response.msg.payload, email_id, remote, disk, files),
                    files)

\* -------------------------------------------------------------------- state

VARIABLES
  pc,               \* where the program, or the function under study, stands
  text, once, twice,            \* a text and the pipeline applied once, twice
  data, decoded,                \* a body blob and decode_body's result
  parts, extracted, plain_text, \* a parts list, its walk, the trimmed body
  response, remote, disk,       \* the answers of the service and the disk
  result,                       \* what the last process_email left behind
  files,                        \* the files of the attachments folder
  email_ids, idx, fetched,      \* main: the listed ids, the loop's position,
                                \* and which of the fetches so far succeeded
  emails_data, all_attachments, \* main: the two record lists
  raised, saved                 \* main: an escaped exception; the CSVs written

normVars == <<text, once, twice>>

decodeVars == <<data, decoded>>

textVars == <<parts, extracted, plain_text>>

msgVars == <<response, remote, disk, result, files>>

mainVars == <<email_ids, idx, fetched, emails_data, all_attachments, raised, saved>>

vars == <<pc, normVars, decodeVars, textVars, msgVars, mainVars>>

NoResponse == [fails |-> TRUE, msg |-> <<>>]

NoResult == Outcome("none", "none", NoEmailData, <<>>, <<>>, {})

NormIdle == text = <<>> /\ once = <<>> /\ twice = <<>>

DecodeIdle == data = <<>> /\ decoded = Ok(<<>>)

TextIdle == parts = <<>> /\ extracted = Ok(<<>>) /\ plain_text = <<>>

MsgIdle ==
  /\ response = NoResponse /\ remote = <<>> /\ disk = <<>>
  /\ result = NoResult /\ files = {}

MainIdle ==
  /\ email_ids = <<>> /\ idx = 0 /\ fetched = <<>>
  /\ emails_data = <<>> /\ all_attachments = <<>>
  /\ raised = "none" /\ saved = [emails |-> FALSE, attachments |-> FALSE]

\* ------------------------------------------------------------------ inputs

\* '1', ' ', LF, CR, '&', '#', ';'
TextAlphabet == {49, 32, 10, 13, 38, 35, 59}

\* 'Q', 'g', '_', '=', '$', U+00E9
BlobAlphabet == {81, 103, 95, 61, 36, 233}

SeqsUpTo(alphabet, n) == UNION {[1..k -> alphabet] : k \in 0..n}

\* The header lists of the messages: no date header, an empty one, one that
\* parses, one that does not, and a date header given twice.
HeaderLists ==
  { <<[name |-> "Subject", value |-> "hi"]>>,
    <<[name |-> "Date", value |-> ""]>>,
    <<[name |-> "Date", value |-> DateGood]>>,
    <<[name |-> "date", value |-> DateBad]>>,
    <<[name |-> "Date", value |-> DateBad], [name |-> "DATE", value |-> DateGood]>> }

Payload(mime, hasData, blob, hasParts, children) ==
  [mimeType |-> mime, hasData |-> hasData, data |-> blob,
   hasParts |-> hasParts, parts |-> children]

\* A payload with the key 'parts'.
Multipart(children) == Payload("multipart/mixed", FALSE, <<>>, TRUE, children)

\* The payloads without parts: a text/plain body, a text/html body, and a
\* payload with no body data.
SinglePartPayloads ==
  { Payload("text/plain", TRUE, BlobB, FALSE, <<>>),
    Payload("text/html", TRUE, BlobA, FALSE, <<>>),
    Payload("application/pdf", FALSE, <<>>, FALSE, <<>>) }

Message(email_id, headers, payload) ==
  [fails |-> FALSE, msg |-> [id |-> email_id, headers |-> headers, payload |-> payload]]

\* r is an answer of messages().get(id=email_id).execute(): a failure, or a
\* message of that id whose payload has at most n nodes below the top.
IsResponse(r, email_id, n) ==
  \/ r = NoResponse
  \/ \E h \in HeaderLists, p \in SinglePartPayloads : r = Message(email_id, h, p)
  \/ \E h \in HeaderLists, k \in 0..n :
       \E c \in Listings(MsgKinds, k) :
         r = Message(email_id, h, Multipart(ForestOf(c, 1, k)))

AttachmentIds == {"h1", "h2"}

Filenames == {"a.pdf", "b.txt"}

RECURSIVE NodesOf(_)
NodesOf(forest) ==
  IF forest = <<>> THEN <<>>
  ELSE <<Head(forest)>> \o NodesOf(Head(forest).parts) \o NodesOf(Tail(forest))

\* The answers the service can give for the attachment ids of a message (an
\* id the message does not hold gets one fixed answer), and likewise the
\* disk's for its file names.
Remotes(resp) ==
  LET nodes == IF resp.fails THEN <<>> ELSE NodesOf(resp.msg.payload.parts)
      used == {nodes[i].attachmentId : i \in 1..Len(nodes)}
  IN  {r \in [AttachmentIds -> AttResponses] :
         \A a \in AttachmentIds \ used : r[a].fails}

Disks(resp) ==
  LET nodes == IF resp.fails THEN <<>> ELSE NodesOf(resp.msg.payload.parts)
      used == {nodes[i].filename : i \in 1..Len(nodes)}
  IN  {d \in [Filenames -> SaveOutcomes] :
         \A f \in Filenames \ used : d[f] = "ok"}

\* ------------------------------------------- SpecNorm: the pipeline, twice

InitNorm ==
  /\ pc = "text" /\ text \in SeqsUpTo(TextAlphabet, MaxTextLen)
  /\ once = <<>> /\ twice = <<>>
  /\ DecodeIdle /\ TextIdle /\ MsgIdle /\ MainIdle

NormalizeOnce ==
  /\ pc = "text"
  /\ once' = normalize_text(text)
  /\ pc' = "once"
  /\ UNCHANGED <<text, twice, decodeVars, textVars, msgVars, mainVars>>

NormalizeTwice ==
  /\ pc = "once"
  /\ twice' = normalize_text(once)
  /\ pc' = "twice"
  /\ UNCHANGED <<text, once, decodeVars, textVars, msgVars, mainVars>>

NextNorm == NormalizeOnce \/ NormalizeTwice

SpecNorm == InitNorm /\ [][NextNorm]_vars

\* ------------------------------------------------- SpecDecode: decode_body

InitDecode ==
  /\ pc = "blob" /\ data \in SeqsUpTo(BlobAlphabet, MaxBlobLen)
  /\ decoded = Ok(<<>>)
  /\ NormIdle /\ TextIdle /\ MsgIdle /\ MainIdle

DecodeBody ==
  /\ pc = "blob"
  /\ decoded' = decode_body(data)
  /\ pc' = "decoded"
  /\ UNCHANGED <<data, normVars, textVars, msgVars, mainVars>>

NextDecode == DecodeBody

SpecDecode == InitDecode /\ [][NextDecode]_vars

\* ------------------------------------- SpecText: extract_text_from_parts

InitText ==
  /\ pc = "parts"
  /\ \E n \in 0..MaxTextNodes :
       \E c \in Listings(TextKinds, n) : parts = ForestOf(c, 1, n)
  /\ extracted = Ok(<<>>) /\ plain_text = <<>>
  /\ NormIdle /\ DecodeIdle /\ MsgIdle /\ MainIdle

\* Lines 106-108 of process_email for a payload holding these parts.
ExtractText ==
  /\ pc = "parts"
  /\ extracted' = extract_text_from_parts(parts)
  /\ plain_text' = payload_text(Multipart(parts)).val
  /\ pc' = "extracted"
  /\ UNCHANGED <<parts, normVars, decodeVars, msgVars, mainVars>>

NextText == ExtractText

SpecText == InitText /\ [][NextText]_vars

\* ------------------------------------------ SpecMsg: process_email, once

InitMsg ==
  /\ pc = "fetch" /\ IsResponse(response, 1, MaxMsgNodes)
  /\ remote = <<>> /\ disk = <<>> /\ result = NoResult /\ files = {}
  /\ NormIdle /\ DecodeIdle /\ TextIdle /\ MainIdle

ProcessEmail ==
  /\ pc = "fetch"
  /\ \E r \in Remotes(response), d \in Disks(response) :
       /\ remote' = r
       /\ disk' = d
       /\ result' = process_email(response, 1, r, d, files)
  /\ files' = result'.files
  /\ pc' = "processed"
  /\ UNCHANGED <<response, normVars, decodeVars, textVars, mainVars>>

NextMsg == ProcessEmail

SpecMsg == InitMsg /\ [][NextMsg]_vars

\* --------------------------------------------------- Spec: the loop of main

\* messages().list(maxResults=10) returns at most this many ids.
maxResults == 10

Init ==
  /\ pc = "list"
  /\ email_ids = <<>> /\ idx = 0 /\ fetched = <<>>
  /\ emails_data = <<>> /\ all_attachments = <<>>
  /\ raised = "none" /\ saved = [emails |-> FALSE, attachments |-> FALSE]
  /\ NormIdle /\ DecodeIdle /\ TextIdle /\ MsgIdle

\* Lines 175-183: the list call fails and main returns, or it gives the ids.
ListMessages ==
  /\ pc = "list"
  /\ \/ /\ pc' = "done"
        /\ UNCHANGED <<email_ids, idx>>
     \/ \E n \in 0..Min(MaxEmails, maxResults) :
          /\ email_ids' = [k \in 1..n |-> k]
          /\ idx' = 1
          /\ pc' = "loop"
  /\ UNCHANGED <<fetched, emails_data, all_attachments, raised, saved,
                 normVars, decodeVars, textVars, msgVars>>

\* Lines 185-191: one turn of the loop.  An exception process_email lets
\* escape is caught nowhere in main and ends the program.
ProcessNext ==
  /\ pc = "loop" /\ idx <= Len(email_ids)
  /\ IsResponse(response', email_ids[idx], MaxMainNodes)
  /\ \E r \in Remotes(response'), d \in Disks(response') :
       /\ remote' = r
       /\ disk' = d
       /\ result' = process_email(response', email_ids[idx], r, d, files)
  /\ files' = result'.files
  /\ fetched' = Append(fetched, ~response'.fails)
  /\ IF result'.exc # "none"
     THEN /\ raised' = result'.exc
          /\ pc' = "crashed"
          /\ UNCHANGED <<idx, emails_data, all_attachments>>
     ELSE /\ emails_data' = IF result'.returned = "records"
                            THEN Append(emails_data, result'.email_data)
                            ELSE emails_data
          /\ all_attachments' = all_attachments \o result'.attachments
          /\ idx' = idx + 1
          /\ UNCHANGED <<pc, raised>>
  /\ UNCHANGED <<email_ids, saved, normVars, decodeVars, textVars>>

\* Lines 193-208: the two CSV files once the loop is over.
SaveCsv ==
  /\ pc = "loop" /\ idx > Len(email_ids)
  /\ saved' = [emails |-> TRUE, attachments |-> all_attachments # <<>>]
  /\ pc' = "done"
  /\ UNCHANGED <<email_ids, idx, fetched, emails_data, all_attachments, raised,
                 normVars, decodeVars, textVars, msgVars>>

Next == ListMessages \/ ProcessNext \/ SaveCsv

Spec == Init /\ [][Next]_vars

\* ============================================================== properties

\* ------------------------------------------------ notions the claims use

\* A leaf is a node with no children.
IsLeaf(node) == node.parts = <<>>

\* The leaves of a parts list, in document order.
Leaves(forest) == SelectSeq(NodesOf(forest), IsLeaf)

\* The leaves of a content tree whose top node is the payload.
ContentLeaves(payload) ==
  IF payload.parts = <<>> THEN <<payload>> ELSE Leaves(payload.parts)

\* The decoded texts of the text/plain leaves among leaves, each non-empty
\* text followed by one newline, in the order of leaves.
RECURSIVE PlainLeafText(_)
PlainLeafText(leaves) ==
  IF leaves = <<>> THEN <<>>
  ELSE LET leaf == Head(leaves)
           leaf_text == IF leaf.mimeType = "text/plain" /\ leaf.hasData
                        THEN decode_body(leaf.data).val ELSE <<>>
       IN  (IF leaf_text = <<>> THEN <<>> ELSE leaf_text \o <<10>>)
             \o PlainLeafText(Tail(leaves))

\* An attachment leaf: a leaf with a non-empty filename and an attachment id.
IsAttachmentLeaf(node) ==
  IsLeaf(node) /\ node.filename # "" /\ node.hasAttachmentId

AttachmentLeaves(forest) == SelectSeq(NodesOf(forest), IsAttachmentLeaf)

\* The subsequence of ids whose flag is set.
RECURSIVE Kept(_, _)
Kept(ids, flags) ==
  IF ids = <<>> \/ flags = <<>> THEN <<>>
  ELSE (IF Head(flags) THEN <<Head(ids)>> ELSE <<>>)
         \o Kept(Tail(ids), Tail(flags))

\* ----------------------------------------------------------------------- C1

\* C1: for a fetched message whose date header is absent, empty or cannot be
\* parsed, process_email raises nothing and returns a record whose
\* date_received is None.
C1_DateNeverFails ==
  (/\ pc = "processed" /\ ~response.fails
   /\ LET date == header_get(response.msg.headers, "date", "")
      IN  date = "" \/ parser_parse(date).exc # "none")
  => /\ result.exc = "none"
     /\ result.returned = "records"
     /\ result.email_data.date_received.none

\* ----------------------------------------------------------------------- C2

\* C2: when an attachment's bytes are retrieved and writing them fails, the
\* list extract_attachments returns holds no record for that attachment,
\* and the message record is still produced.
C2_NoRecordWhenWriteFails ==
  pc = "processed" =>
    \A k \in 1..Len(result.calls) :
      (/\ result.calls[k].retrieved /\ result.calls[k].bytes # <<>>
       /\ disk[result.calls[k].filename] = "fail")
      => /\ result.returned = "records"
         /\ \A j \in 1..Len(result.attachments) :
              result.attachments[j].filename # result.calls[k].filename

\* ----------------------------------------------------------------------- C3

\* C3: when the retrieval of an attachment leaf fails, no exception escapes,
\* the records returned are those of the attachment leaves whose retrieval
\* succeeds, in tree order, and plain_text is what it is when every
\* retrieval succeeds.
C3_RetrievalFailureIsolated ==
  (/\ pc = "processed" /\ result.returned = "records"
   /\ \E k \in 1..Len(result.calls) : ~result.calls[k].retrieved)
  => LET leaves == AttachmentLeaves(response.msg.payload.parts)
         retrieved(leaf) == ~download_attachment(remote, leaf.attachmentId).none
         got == SelectSeq(leaves, retrieved)
         all_ok == [a \in AttachmentIds |-> [fails |-> FALSE, data |-> <<65, 81, 73, 68>>]]
     IN  /\ result.exc = "none"
         /\ [j \in 1..Len(result.attachments) |-> result.attachments[j].filename]
              = [j \in 1..Len(got) |-> got[j].filename]
         /\ result.email_data.plain_text
              = process_email(response, 1, all_ok, disk, {}).email_data.plain_text

\* ----------------------------------------------------------------------- C4

\* C4: the loop of main never ends early, and once it is over emails_data
\* holds exactly one record per message whose fetch succeeded, in the order
\* of the listed ids, and all_attachments holds records of those messages
\* only.
C4_BatchIsolation ==
  /\ pc # "crashed"
  /\ pc = "done" =>
       /\ Len(fetched) = Len(email_ids)
       /\ [j \in 1..Len(emails_data) |-> emails_data[j].email_id]
            = Kept(email_ids, fetched)
       /\ \A j \in 1..Len(all_attachments) :
            \E k \in 1..Len(email_ids) :
              fetched[k] /\ all_attachments[j].email_id = email_ids[k]

\* ----------------------------------------------------------------------- C5

\* C5: the plain_text of a message record is made of the texts of the
\* text/plain leaves of its content tree only, the top node included when
\* the message is single-part; a tree with only text/html leaves gives "".
C5_PlainLeavesOnly ==
  (pc = "processed" /\ result.returned = "records")
  => result.email_data.plain_text
       = Strip(PlainLeafText(ContentLeaves(response.msg.payload)))

\* ----------------------------------------------------------------------- C6

\* Every node is a container without body data or a text/plain leaf whose
\* decoded text is not empty.
TextTree(forest) ==
  \A i \in 1..Len(NodesOf(forest)) :
    LET node == NodesOf(forest)[i]
    IN  \/ node.hasParts /\ ~node.hasData
        \/ /\ ~node.hasParts /\ node.mimeType = "text/plain" /\ node.hasData
           /\ decode_body(node.data).exc = "none"
           /\ decode_body(node.data).val # <<>>

\* C6: for containers nested to any depth over text/plain leaves with text,
\* extract_text_from_parts returns the leaves' texts, each followed by one
\* newline, in document order and with nothing else between them;
\* process_email's plain_text is that text trimmed.
C6_DocumentOrder ==
  (pc = "extracted" /\ TextTree(parts))
  => /\ extracted = Ok(PlainLeafText(Leaves(parts)))
     /\ plain_text = Strip(PlainLeafText(Leaves(parts)))

\* A container holding the leaf "A", followed by the leaf "1 B": "A\nB\n".
C6_Nested ==
  /\ pc = "extracted" /\ TextTree(parts)
  /\ Len(parts) = 2 /\ Len(parts[1].parts) = 1
  /\ extracted = Ok(<<65, 10, 66, 10>>)
  /\ plain_text = <<65, 10, 66>>

\* ----------------------------------------------------------------------- C7

\* C7: the nodes extract_attachments tries to retrieve are exactly the
\* leaves with a non-empty filename and an attachment id, in tree order.
C7_ExactlyAttachmentLeaves ==
  (pc = "processed" /\ result.returned = "records")
  => LET leaves == AttachmentLeaves(response.msg.payload.parts)
     IN  [k \in 1..Len(result.calls) |->
            <<result.calls[k].filename, result.calls[k].attachmentId>>]
           = [k \in 1..Len(leaves) |-> <<leaves[k].filename, leaves[k].attachmentId>>]

\* ----------------------------------------------------------------------- C8

\* '-', '_', the digits and the letters.
UrlsafeAlphabet == {45, 95} \cup (48..57) \cup (65..90) \cup (97..122)

\* s is URL-safe base64: quads of alphabet characters, the last one padded
\* with at most two '='.
ValidUrlsafeBase64(s) ==
  /\ Len(s) % 4 = 0
  /\ \E pad \in 0..2 :
       /\ pad <= Len(s)
       /\ \A i \in 1..Len(s) :
            IF i > Len(s) - pad THEN s[i] = 61 ELSE s[i] \in UrlsafeAlphabet

InvalidBlob(s) ==
  \/ ~ValidUrlsafeBase64(s)
  \/ utf8_decode(urlsafe_b64decode(s).val).exc # "none"

\* C8: decode_body raises nothing, and returns "" for an empty blob, for a
\* blob that is not valid URL-safe base64 and for one whose bytes are not
\* valid UTF-8.
C8_NeverRaises ==
  pc = "decoded" =>
    /\ decoded.exc = "none"
    /\ (data = <<>> \/ InvalidBlob(data)) => decoded.val = <<>>

\* ----------------------------------------------------------------------- C9

\* t begins with a numeric header: decimal digits, then whitespace.
BeginsWithNumericHeader(t) ==
  \E d \in 1..(Len(t) - 1) :
    /\ \A k \in 1..d : IsDigit(t[k])
    /\ IsSpace(t[d + 1])

\* t without its leading digits and the whitespace after them.
WithoutNumericHeader(t) ==
  SubSeq(t, RunEnd("space", t, RunEnd("digit", t, 1)), Len(t))

\* C9 as stated: the pipeline applied to its own output changes nothing.
C9_Idempotent == pc = "twice" => twice = once

\* C9, amended: when the output of one pass holds no character reference,
\* a second pass removes one more numeric header if the output begins with
\* one, and changes nothing otherwise.
C9_OneHeaderPerPass ==
  (pc = "twice" /\ html_unescape(once) = once)
  => IF BeginsWithNumericHeader(once)
     THEN twice = WithoutNumericHeader(once) /\ twice # once
     ELSE twice = once

\* A text that starts with two numeric headers: each pass removes one.
C9_TwoHeaders ==
  /\ pc = "twice" /\ html_unescape(once) = once
  /\ BeginsWithNumericHeader(text) /\ BeginsWithNumericHeader(once)
  /\ once = WithoutNumericHeader(text)
  /\ twice = WithoutNumericHeader(once)

\* ---------------------------------------------------------------------- C10

\* C10: a node with both body data and children contributes the text of its
\* children and nothing of its own body data.
C10_ChildrenOverBody ==
  (/\ pc = "extracted" /\ Len(parts) = 1
   /\ parts[1].hasData /\ parts[1].parts # <<>>)
  => extracted = extract_text_from_parts(parts[1].parts)

====
